---- MODULE Spec2Model ----
(***************************************************************************)
(* Model of pkg/handlerutil/response.go: WriteResourceToResponse and       *)
(* WriteError writing onto an http.ResponseWriter.                         *)
(*                                                                         *)
(* The response writer is modelled with the behaviour net/http documents   *)
(* for it: Header() is a mutable map; WriteHeader(code) sends the status   *)
(* line together with the header map as it is at that moment (later        *)
(* changes to the map are not sent); Write() on a writer whose header has  *)
(* not been sent first sends it with status 200.  Every call made on the   *)
(* writer is also recorded in `calls`, the way a recording test double     *)
(* would.                                                                  *)
(***************************************************************************)
EXTENDS Integers, Sequences, FiniteSets, TLC

VARIABLES pc, op, resource, options, err, marshalFails, writeErr,
          rw, calls, raw, errMsg, ret

vars == <<pc, op, resource, options, err, marshalFails, writeErr,
          rw, calls, raw, errMsg, ret>>

\* ------------------------------------------------------------------ bounds
\* longest chain of wrapped errors handed to WriteError
MaxChain == 3

\* --------------------------------------------------------------- constants
None == "nil"
Absent == "<absent>"
ScimJSON == "application/json+scim"
SniffedType == "text/plain; charset=utf-8"
ErrorSchema == "urn:ietf:params:scim:api:messages:2.0:Error"
HeaderNames == {"Content-Type", "Location", "ETag"}

\* spec.ErrInternal: the fallback classification
ErrInternal == [kind |-> "spec.Error", Status |-> 500, Type |-> "internal", msg |-> "internal"]

\* *spec.Error values produced upstream
ProtocolErrors ==
    { [kind |-> "spec.Error", Status |-> 404, Type |-> "invalidPath", msg |-> "invalidPath"],
      [kind |-> "spec.Error", Status |-> 400, Type |-> "invalidFilter", msg |-> "invalidFilter"],
      ErrInternal }

\* errors of any other dynamic type; one of them carries a status and a type
\* of its own, which WriteError's type assertion does not look at
OtherErrors ==
    { [kind |-> "other", Status |-> 0, Type |-> "", msg |-> "disk full"],
      [kind |-> "other", Status |-> 503, Type |-> "custom", msg |-> "backend unavailable"] }

ErrorNodes == ProtocolErrors \cup OtherErrors

\* an error value is the chain it heads: element 1 is the error itself,
\* element i+1 is what element i's Unwrap method returns
ErrorChains == UNION { [1..n -> ErrorNodes] : n \in 1..MaxChain }

Locations == {"", "https://example.com/Users/1"}
Versions == {"", "W/1"}
SerializeErrors == {"ErrSerializeCycle", "ErrSerializeInvalid"}
OptionSets == { <<>>, <<"attributes:userName">>, <<"excludedAttributes:emails">> }
Resources == [location : Locations, version : Versions, serErr : {None} \cup SerializeErrors]
TransportErrors == {"ErrConnClosed"}
MarshalError == "ErrJSONMarshal"
CallerStatuses == {200, 201}

NoResource == [location |-> "", version |-> "", serErr |-> None]
NoErrMsg == [Schemas |-> <<>>, Status |-> 0, ScimType |-> "", Detail |-> ""]

\* --------------------------------------------------- http.ResponseWriter
NewResponseWriter ==
    [header |-> [h \in HeaderNames |-> Absent],
     wroteHeader |-> FALSE,
     status |-> 0,
     sentHeader |-> [h \in HeaderNames |-> Absent],
     body |-> <<>>]

\* rw.Header().Set(key, value)
HeaderSet(w, key, value) == [w EXCEPT !.header[key] = value]

\* rw.WriteHeader(code): the first call sends the status line with the header
\* map as it stands; a further call is ignored
WriteHeader(w, code) ==
    IF w.wroteHeader THEN w
    ELSE [w EXCEPT !.wroteHeader = TRUE, !.status = code, !.sentHeader = w.header]

\* rw.Write(data): sends the header with 200 if it was not sent yet, fills in
\* a sniffed Content-Type if none was sent, then writes the bytes unless the
\* transport fails
Write(w, data, failure) ==
    LET c == WriteHeader(w, 200)
        s == IF c.sentHeader["Content-Type"] = Absent
             THEN [c EXCEPT !.sentHeader["Content-Type"] = SniffedType]
             ELSE c
    IN  IF failure # None THEN s ELSE [s EXCEPT !.body = Append(@, data)]

Call(by, fn, key, val, code) == [by |-> by, fn |-> fn, key |-> key, val |-> val, code |-> code]

\* ------------------------------------------------------------ collaborators
\* scimjson.Serialize(resource, options...)
Serialize(r, opts) ==
    IF r.serErr # None
    THEN [raw |-> <<>>, err |-> r.serErr]
    ELSE [raw |-> <<"resource", r.location, r.version, opts>>, err |-> None]

MetaLocationOrEmpty(r) == r.location
MetaVersionOrEmpty(r) == r.version

\* variant: the message of the unwrapped cause instead of the error's own
CauseErrorString(e) == IF Len(e) > 1 THEN e[2].msg ELSE e[1].msg

\* err.Error()
ErrorString(e) == e[1].msg

\* errors.Unwrap(err): the direct cause, or no error
Unwrap(e) == IF Len(e) > 1 THEN Tail(e) ELSE <<>>

\* json.Marshal(errMsg): the fields in declaration order under their json names
Marshal(m) ==
    << <<"schemas", m.Schemas>>, <<"status", m.Status>>,
       <<"scimType", m.ScimType>>, <<"detail", m.Detail>> >>

\* the value stored under a json name in a marshalled body
Field(bytes, name) ==
    LET i == CHOOSE k \in 1..Len(bytes) : bytes[k][1] = name IN bytes[i][2]

\* ------------------------------------------------------------------- state
Init ==
    /\ pc = "idle"
    /\ op = "none"
    /\ resource = NoResource
    /\ options = <<>>
    /\ err = <<>>
    /\ marshalFails = FALSE
    /\ writeErr = None
    /\ rw = NewResponseWriter
    /\ calls = <<>>
    /\ raw = <<>>
    /\ errMsg = NoErrMsg
    /\ ret = "pending"

\* ------------------------------------------------------------------ caller
\* the handler sets the response status before WriteResourceToResponse
CallerWriteHeader ==
    /\ pc = "idle"
    /\ ~rw.wroteHeader
    /\ \E code \in CallerStatuses :
          /\ rw' = WriteHeader(rw, code)
          /\ calls' = Append(calls, Call("caller", "WriteHeader", "", "", code))
    /\ UNCHANGED <<pc, op, resource, options, err, marshalFails, writeErr, raw, errMsg, ret>>

InvokeWriteResourceToResponse ==
    /\ pc = "idle"
    /\ \E r \in Resources, o \in OptionSets, w \in {None} \cup TransportErrors :
          /\ resource' = r
          /\ options' = o
          /\ writeErr' = w
    /\ op' = "WriteResourceToResponse"
    /\ pc' = "r_serialize"
    /\ UNCHANGED <<err, marshalFails, rw, calls, raw, errMsg, ret>>

InvokeWriteError ==
    /\ pc = "idle"
    /\ ~rw.wroteHeader
    /\ \E e \in ErrorChains, m \in BOOLEAN, w \in {None} \cup TransportErrors :
          /\ err' = e
          /\ marshalFails' = m
          /\ writeErr' = w
    /\ op' = "WriteError"
    /\ pc' = "e_build"
    /\ UNCHANGED <<resource, options, rw, calls, raw, errMsg, ret>>

\* ------------------------------------------------- WriteResourceToResponse
R == "WriteResourceToResponse"

\* variant: the content type is set before the serializer's failure is returned
R_SerializeFail_HeaderFirst ==
    /\ pc = "r_serialize"
    /\ Serialize(resource, options).err # None
    /\ rw' = HeaderSet(rw, "Content-Type", ScimJSON)
    /\ calls' = Append(calls, Call(R, "Header.Set", "Content-Type", ScimJSON, 0))
    /\ ret' = Serialize(resource, options).err
    /\ pc' = "done"
    /\ UNCHANGED <<op, resource, options, err, marshalFails, writeErr, raw, errMsg>>

\* raw, jsonErr := scimjson.Serialize(...); if jsonErr != nil { return jsonErr }
R_SerializeFail ==
    /\ pc = "r_serialize"
    /\ Serialize(resource, options).err # None
    /\ ret' = Serialize(resource, options).err
    /\ pc' = "done"
    /\ UNCHANGED <<op, resource, options, err, marshalFails, writeErr, rw, calls, raw, errMsg>>

R_SerializeOk ==
    /\ pc = "r_serialize"
    /\ Serialize(resource, options).err = None
    /\ raw' = Serialize(resource, options).raw
    /\ pc' = "r_content_type"
    /\ UNCHANGED <<op, resource, options, err, marshalFails, writeErr, rw, calls, errMsg, ret>>

\* rw.Header().Set("Content-Type", "application/json+scim")
R_SetContentType ==
    /\ pc = "r_content_type"
    /\ rw' = HeaderSet(rw, "Content-Type", ScimJSON)
    /\ calls' = Append(calls, Call(R, "Header.Set", "Content-Type", ScimJSON, 0))
    /\ pc' = "r_location"
    /\ UNCHANGED <<op, resource, options, err, marshalFails, writeErr, raw, errMsg, ret>>

\* variant: Location is set without the emptiness test
R_SetLocation_Always ==
    /\ pc = "r_location"
    /\ rw' = HeaderSet(rw, "Location", MetaLocationOrEmpty(resource))
    /\ calls' = Append(calls, Call(R, "Header.Set", "Location", MetaLocationOrEmpty(resource), 0))
    /\ pc' = "r_etag"
    /\ UNCHANGED <<op, resource, options, err, marshalFails, writeErr, raw, errMsg, ret>>

\* if location := resource.MetaLocationOrEmpty(); len(location) > 0 { ... }
R_SetLocation ==
    /\ pc = "r_location"
    /\ LET location == MetaLocationOrEmpty(resource) IN
          IF location # ""
          THEN /\ rw' = HeaderSet(rw, "Location", location)
               /\ calls' = Append(calls, Call(R, "Header.Set", "Location", location, 0))
          ELSE UNCHANGED <<rw, calls>>
    /\ pc' = "r_etag"
    /\ UNCHANGED <<op, resource, options, err, marshalFails, writeErr, raw, errMsg, ret>>

\* if version := resource.MetaVersionOrEmpty(); len(version) > 0 { ... }
R_SetETag ==
    /\ pc = "r_etag"
    /\ LET version == MetaVersionOrEmpty(resource) IN
          IF version # ""
          THEN /\ rw' = HeaderSet(rw, "ETag", version)
               /\ calls' = Append(calls, Call(R, "Header.Set", "ETag", version, 0))
          ELSE UNCHANGED <<rw, calls>>
    /\ pc' = "r_write"
    /\ UNCHANGED <<op, resource, options, err, marshalFails, writeErr, raw, errMsg, ret>>

\* variant: the content type is set again after the body write
R_Write_ThenContentType ==
    /\ pc = "r_write"
    /\ rw' = HeaderSet(Write(rw, raw, writeErr), "Content-Type", ScimJSON)
    /\ calls' = calls \o << Call(R, "Write", "", "", 0),
                            Call(R, "Header.Set", "Content-Type", ScimJSON, 0) >>
    /\ ret' = writeErr
    /\ pc' = "done"
    /\ UNCHANGED <<op, resource, options, err, marshalFails, writeErr, raw, errMsg>>

\* variant: the writer sets status 200 itself before the body write
R_Write_WithStatus ==
    /\ pc = "r_write"
    /\ rw' = Write(WriteHeader(rw, 200), raw, writeErr)
    /\ calls' = calls \o << Call(R, "WriteHeader", "", "", 200),
                            Call(R, "Write", "", "", 0) >>
    /\ ret' = writeErr
    /\ pc' = "done"
    /\ UNCHANGED <<op, resource, options, err, marshalFails, writeErr, raw, errMsg>>

\* _, writeErr := rw.Write(raw); return writeErr
R_Write ==
    /\ pc = "r_write"
    /\ rw' = Write(rw, raw, writeErr)
    /\ calls' = Append(calls, Call(R, "Write", "", "", 0))
    /\ ret' = writeErr
    /\ pc' = "done"
    /\ UNCHANGED <<op, resource, options, err, marshalFails, writeErr, raw, errMsg>>

\* -------------------------------------------------------------- WriteError
E == "WriteError"

\* errMsg := struct{...}{Schemas: ..., Detail: err.Error()}
E_Build ==
    /\ pc = "e_build"
    /\ errMsg' = [Schemas |-> <<ErrorSchema>>, Status |-> 0, ScimType |-> "",
                  Detail |-> ErrorString(err)]
    /\ pc' = "e_classify"
    /\ UNCHANGED <<op, resource, options, err, marshalFails, writeErr, rw, calls, raw, ret>>

\* variant: the first *spec.Error anywhere in the chain, the error itself
\* included (what errors.As would find)
ClassifyAs(e) ==
    IF \E i \in 1..Len(e) : e[i].kind = "spec.Error"
    THEN LET i == CHOOSE k \in 1..Len(e) :
                     /\ e[k].kind = "spec.Error"
                     /\ \A j \in 1..(k - 1) : e[j].kind # "spec.Error"
         IN [Status |-> e[i].Status, ScimType |-> e[i].Type]
    ELSE [Status |-> ErrInternal.Status, ScimType |-> ErrInternal.Type]

\* variant: the type test never succeeds
ClassifyInternalOnly(e) == [Status |-> ErrInternal.Status, ScimType |-> ErrInternal.Type]

\* cause := errors.Unwrap(err); scimError, ok := cause.(*spec.Error)
Classify(e) ==
    LET cause == Unwrap(e) IN
    IF cause # <<>> /\ cause[1].kind = "spec.Error"
    THEN [Status |-> cause[1].Status, ScimType |-> cause[1].Type]
    ELSE [Status |-> ErrInternal.Status, ScimType |-> ErrInternal.Type]

E_Classify ==
    /\ pc = "e_classify"
    /\ errMsg' = [errMsg EXCEPT !.Status = Classify(err).Status,
                                !.ScimType = Classify(err).ScimType]
    /\ pc' = "e_write_header"
    /\ UNCHANGED <<op, resource, options, err, marshalFails, writeErr, rw, calls, raw, ret>>

\* variant: the status line always carries the internal-error status
E_WriteHeader_Internal ==
    /\ pc = "e_write_header"
    /\ rw' = WriteHeader(rw, ErrInternal.Status)
    /\ calls' = Append(calls, Call(E, "WriteHeader", "", "", ErrInternal.Status))
    /\ pc' = "e_content_type"
    /\ UNCHANGED <<op, resource, options, err, marshalFails, writeErr, raw, errMsg, ret>>

\* variant: the content type is set first, then the status is written
E_WriteHeader_AfterContentType ==
    /\ pc = "e_write_header"
    /\ rw' = WriteHeader(HeaderSet(rw, "Content-Type", ScimJSON), errMsg.Status)
    /\ calls' = calls \o << Call(E, "Header.Set", "Content-Type", ScimJSON, 0),
                            Call(E, "WriteHeader", "", "", errMsg.Status) >>
    /\ pc' = "e_marshal"
    /\ UNCHANGED <<op, resource, options, err, marshalFails, writeErr, raw, errMsg, ret>>

\* rw.WriteHeader(errMsg.Status)
E_WriteHeader ==
    /\ pc = "e_write_header"
    /\ rw' = WriteHeader(rw, errMsg.Status)
    /\ calls' = Append(calls, Call(E, "WriteHeader", "", "", errMsg.Status))
    /\ pc' = "e_content_type"
    /\ UNCHANGED <<op, resource, options, err, marshalFails, writeErr, raw, errMsg, ret>>

\* rw.Header().Set("Content-Type", "application/json+scim")
E_SetContentType ==
    /\ pc = "e_content_type"
    /\ rw' = HeaderSet(rw, "Content-Type", ScimJSON)
    /\ calls' = Append(calls, Call(E, "Header.Set", "Content-Type", ScimJSON, 0))
    /\ pc' = "e_marshal"
    /\ UNCHANGED <<op, resource, options, err, marshalFails, writeErr, raw, errMsg, ret>>

\* raw, jsonErr := json.Marshal(errMsg); if jsonErr != nil { return jsonErr }
E_MarshalFail ==
    /\ pc = "e_marshal"
    /\ marshalFails
    /\ ret' = MarshalError
    /\ pc' = "done"
    /\ UNCHANGED <<op, resource, options, err, marshalFails, writeErr, rw, calls, raw, errMsg>>

E_MarshalOk ==
    /\ pc = "e_marshal"
    /\ ~marshalFails
    /\ raw' = Marshal(errMsg)
    /\ pc' = "e_write"
    /\ UNCHANGED <<op, resource, options, err, marshalFails, writeErr, rw, calls, errMsg, ret>>

\* _, writeErr := rw.Write(raw); return writeErr
E_Write ==
    /\ pc = "e_write"
    /\ rw' = Write(rw, raw, writeErr)
    /\ calls' = Append(calls, Call(E, "Write", "", "", 0))
    /\ ret' = writeErr
    /\ pc' = "done"
    /\ UNCHANGED <<op, resource, options, err, marshalFails, writeErr, raw, errMsg>>

Next ==
    \/ CallerWriteHeader
    \/ InvokeWriteResourceToResponse
    \/ InvokeWriteError
    \/ R_SerializeFail
    \/ R_SerializeOk
    \/ R_SetContentType
    \/ R_SetLocation
    \/ R_SetETag
    \/ R_Write
    \/ E_Build
    \/ E_Classify
    \/ E_WriteHeader
    \/ E_SetContentType
    \/ E_MarshalFail
    \/ E_MarshalOk
    \/ E_Write

Spec == Init /\ [][Next]_vars

\* ============================================================== properties
CallsBy(by) == SelectSeq(calls, LAMBDA c : c.by = by)
CallsOf(by, fn) == SelectSeq(calls, LAMBDA c : c.by = by /\ c.fn = fn)
SetsOf(by, key) == SelectSeq(calls, LAMBDA c : c.by = by /\ c.fn = "Header.Set" /\ c.key = key)
Fns(cs) == [i \in 1..Len(cs) |-> cs[i].fn]

ResourceDone == pc = "done" /\ op = R
ErrorDone == pc = "done" /\ op = E

\* C1: every successful WriteResourceToResponse and every WriteError leaves a
\* response whose sent headers (those in effect when the status line went
\* out) carry Content-Type application/json+scim.
C1_ContentTypeSent ==
    (ErrorDone \/ (ResourceDone /\ ret = None))
        => (rw.wroteHeader /\ rw.sentHeader["Content-Type"] = ScimJSON)

\* C2: when the serializer fails with E, WriteResourceToResponse returns E
\* and makes no call on the response writer: no header, status or body.
C2_SerializeFailureNoMutation ==
    (ResourceDone /\ resource.serErr # None)
        => /\ ret = resource.serErr
           /\ CallsBy(R) = <<>>
           /\ rw.header = NewResponseWriter.header
           /\ rw.body = <<>>
           /\ Len(calls) <= 1
           /\ (rw.wroteHeader <=> Len(calls) = 1)
           /\ (rw.wroteHeader => rw.status = calls[1].code)

C2_Witness ==
    /\ ResourceDone
    /\ resource.serErr = "ErrSerializeCycle"
    /\ ret = "ErrSerializeCycle"
    /\ resource.location # ""
    /\ options # <<>>

\* C3: when the direct cause of the error is absent or is not a *spec.Error,
\* the status written, the body's status and the body's scimType are those of
\* ErrInternal (500), whatever the error itself or deeper causes carry.
C3_FallbackIsInternal ==
    (ErrorDone /\ (Len(err) = 1 \/ err[2].kind # "spec.Error"))
        => /\ errMsg.Status = 500
           /\ errMsg.ScimType = ErrInternal.Type
           /\ rw.status = 500
           /\ Len(CallsOf(E, "WriteHeader")) = 1
           /\ CallsOf(E, "WriteHeader")[1].code = 500
           /\ (~marshalFails /\ writeErr = None =>
                  /\ Field(rw.body[1], "status") = 500
                  /\ Field(rw.body[1], "scimType") = ErrInternal.Type)

C3_Witness ==
    /\ ErrorDone
    /\ Len(err) = 3
    /\ err[1].kind = "spec.Error" /\ err[1].Status = 404
    /\ err[2].kind = "other" /\ err[2].Status = 503
    /\ err[3].kind = "spec.Error" /\ err[3].Status = 400
    /\ rw.status = 500
    /\ Len(rw.body) = 1

\* C4: when the direct cause is a *spec.Error with status s and type t, the
\* status written is s and the body carries status s and scimType t.
C4_ClassifiedIsFaithful ==
    (ErrorDone /\ Len(err) >= 2 /\ err[2].kind = "spec.Error")
        => /\ errMsg.Status = err[2].Status
           /\ errMsg.ScimType = err[2].Type
           /\ rw.status = err[2].Status
           /\ Len(CallsOf(E, "WriteHeader")) = 1
           /\ CallsOf(E, "WriteHeader")[1].code = err[2].Status
           /\ (~marshalFails /\ writeErr = None =>
                  /\ Field(rw.body[1], "status") = err[2].Status
                  /\ Field(rw.body[1], "scimType") = err[2].Type)

C4_Witness ==
    /\ ErrorDone
    /\ Len(err) = 2
    /\ err[1].kind = "other"
    /\ err[2].kind = "spec.Error" /\ err[2].Status = 404 /\ err[2].Type = "invalidPath"
    /\ rw.status = 404
    /\ Len(rw.body) = 1
    /\ Field(rw.body[1], "scimType") = "invalidPath"

\* C5: a WriteError invocation builds one wire body, and its status equals
\* the status code written to the response writer, in both branches.
C5_BodyStatusIsWrittenStatus ==
    ErrorDone
        => /\ Len(CallsOf(E, "WriteHeader")) = 1
           /\ CallsOf(E, "WriteHeader")[1].code = errMsg.Status
           /\ rw.status = errMsg.Status
           /\ Len(rw.body) <= 1
           /\ (Len(rw.body) = 1 => Field(rw.body[1], "status") = rw.status)

C5_Witness ==
    /\ ErrorDone
    /\ Len(err) >= 2 /\ err[2].kind = "spec.Error" /\ err[2].Status = 400
    /\ rw.status = 400
    /\ Len(rw.body) = 1
    /\ Field(rw.body[1], "status") = 400

\* C6: the body's detail is the message of the error passed in, never that
\* of its cause, in the classified branch and in the fallback branch.
C6_DetailIsOriginalMessage ==
    ErrorDone
        => /\ errMsg.Detail = err[1].msg
           /\ (Len(rw.body) = 1 => Field(rw.body[1], "detail") = err[1].msg)

C6_Witness ==
    /\ ErrorDone
    /\ Len(err) = 2
    /\ err[1].msg = "disk full"
    /\ err[2].msg = "backend unavailable"
    /\ Len(rw.body) = 1
    /\ Field(rw.body[1], "detail") = "disk full"
    /\ rw.status = 500

\* C7: in WriteResourceToResponse no header is set after the body write.
C7_HeadersBeforeBody ==
    \A i, j \in 1..Len(calls) :
        (i < j /\ calls[i].by = R /\ calls[i].fn = "Write")
            => ~(calls[j].by = R /\ calls[j].fn = "Header.Set")

C7_Witness ==
    /\ ResourceDone
    /\ Fns(CallsBy(R)) = <<"Header.Set", "Header.Set", "Header.Set", "Write">>
    /\ Len(rw.body) = 1

\* C8: after a successful serialization, Location is set to exactly the
\* resource's location when that is non-empty and is not set at all when it
\* is empty; the same for ETag and the resource's version.
C8_LocationAndETag ==
    (ResourceDone /\ resource.serErr = None)
        => /\ IF resource.location # ""
              THEN /\ Len(SetsOf(R, "Location")) = 1
                   /\ SetsOf(R, "Location")[1].val = resource.location
                   /\ rw.header["Location"] = resource.location
              ELSE /\ SetsOf(R, "Location") = <<>>
                   /\ rw.header["Location"] = Absent
           /\ IF resource.version # ""
              THEN /\ Len(SetsOf(R, "ETag")) = 1
                   /\ SetsOf(R, "ETag")[1].val = resource.version
                   /\ rw.header["ETag"] = resource.version
              ELSE /\ SetsOf(R, "ETag") = <<>>
                   /\ rw.header["ETag"] = Absent

C8_Witness ==
    /\ ResourceDone
    /\ resource.serErr = None
    /\ resource.location = "https://example.com/Users/1"
    /\ resource.version = ""
    /\ rw.header["Location"] = "https://example.com/Users/1"
    /\ rw.header["ETag"] = Absent

\* C9: no step of WriteResourceToResponse calls WriteHeader, a status the
\* caller has set stays as it is, and the resource is not modified.
C9_NoStatusNoResourceMutation ==
    [][ (op = R /\ pc # "done")
            => /\ CallsOf(R, "WriteHeader")' = <<>>
               /\ (rw.wroteHeader => (rw'.wroteHeader /\ rw'.status = rw.status))
               /\ resource' = resource ]_vars

C9_Witness ==
    /\ ResourceDone
    /\ Len(calls) > 1
    /\ calls[1].by = "caller" /\ calls[1].code = 201
    /\ rw.status = 201
    /\ Len(rw.body) = 1

\* C10: WriteError makes one WriteHeader call, then one Content-Type set,
\* then one body write; only when marshalling the body fails is the failure
\* returned with no body write, status and header being already written.
C10_ErrorCallSequence ==
    /\ op = E => \E n \in 0..3 :
                    Fns(CallsBy(E)) = SubSeq(<<"WriteHeader", "Header.Set", "Write">>, 1, n)
    /\ ErrorDone =>
          IF marshalFails
          THEN /\ Fns(CallsBy(E)) = <<"WriteHeader", "Header.Set">>
               /\ ret = MarshalError
               /\ rw.body = <<>>
               /\ rw.wroteHeader
          ELSE /\ Fns(CallsBy(E)) = <<"WriteHeader", "Header.Set", "Write">>
               /\ CallsBy(E)[2].key = "Content-Type"
               /\ ret = writeErr

C10_Witness ==
    /\ ErrorDone
    /\ ~marshalFails
    /\ Fns(CallsBy(E)) = <<"WriteHeader", "Header.Set", "Write">>
    /\ ret = None
    /\ Len(rw.body) = 1

====
